---------------------------- MODULE Spec2Model ----------------------------
(***************************************************************************)
(* A model of the Reversi/Othello board engine of reversi.py: the         *)
(* ReversiGame object (height, width, board, curr_player, move_dict,      *)
(* possible_moves) and its operations __init__, update_move_dict,         *)
(* make_move (coordinate move and pass), flip_board and check_winner.     *)
(* The board is stored from the perspective of the current player:        *)
(* 1 = current player's piece, -1 = enemy piece, 0 = empty.               *)
(***************************************************************************)
EXTENDS Integers, Sequences, FiniteSets, TLC

VARIABLES constructed, height, width, board, curr_player, move_dict,
          possible_moves, last, run

vars == <<constructed, height, width, board, curr_player, move_dict,
          possible_moves, last, run>>

(***************************************************************************)
(* Bounds of the exploration.                                              *)
(***************************************************************************)
\* the constructor is handed dimensions from -MaxNegDim to MaxDim
MaxNegDim == 2
MaxDim == 4
\* coordinate moves are explored while fewer than MaxPieces cells are occupied
MaxPieces == 7
\* flip_board is applied to every grid of at most MaxFlipCells squares
MaxFlipCells == 6
\* update_move_dict is applied to every grid of at most MaxCells squares
MaxCells == 9

Dims == (-MaxNegDim)..MaxDim

(***************************************************************************)
(* Python helpers.                                                         *)
(***************************************************************************)
\* range(n): empty when n <= 0
range(n) == 0..(n - 1)

\* len(range(n))
RangeLen(n) == IF n > 0 THEN n ELSE 0

\* Python's x % 2 (the sign of the result follows the divisor)
PyMod2(x) == IF x >= 0 THEN x % 2 ELSE (2 - ((-x) % 2)) % 2

\* Python's x // 2 (floor division)
PyDiv2(x) == IF x >= 0 THEN x \div 2 ELSE -(((-x) + 1) \div 2)

\* a list of length n accepts index k iff -n <= k < n
IndexOK(k, n) == (-n <= k) /\ (k < n)

\* the position a (valid) Python index denotes
NormIndex(k, n) == IF k < 0 THEN k + n ELSE k

(***************************************************************************)
(* flip_board: every value of the board becomes its opposite.              *)
(***************************************************************************)
\* flip_board negating the current player's pieces only
flip_board_MineOnly(b) ==
    [i \in DOMAIN b |-> [j \in DOMAIN b[i] |->
        IF b[i][j] = 1 THEN -1 ELSE b[i][j]]]

flip_board(b) == [i \in DOMAIN b |-> [j \in DOMAIN b[i] |-> -b[i][j]]]

(***************************************************************************)
(* update_move_dict                                                        *)
(***************************************************************************)
directions == << <<-1, -1>>, <<-1, 0>>, <<-1, 1>>, <<0, -1>>,
                 <<0, 1>>, <<1, -1>>, <<1, 0>>, <<1, 1>> >>

OffBoard(ci, cj, h, w) == ci < 0 \/ ci > h - 1 \/ cj < 0 \/ cj > w - 1

\* the while loop of one direction: the cursor and the set 'flipped' when the
\* loop ends (by its condition or by break)
RECURSIVE WalkLoop(_, _, _, _, _, _, _, _)
WalkLoop(b, h, w, ci, cj, dh, dv, flipped) ==
    IF b[ci][cj] = -1
    THEN IF OffBoard(ci + dh, cj + dv, h, w)
         THEN <<ci, cj, flipped>>
         ELSE WalkLoop(b, h, w, ci + dh, cj + dv, dh, dv,
                       flipped \cup {<<ci, cj>>})
    ELSE <<ci, cj, flipped>>

\* DirectionFlips without the test that the walk ended on an own piece
DirectionFlips_NoAnchor(b, h, w, i, j, d) ==
    LET dh == directions[d][1]
        dv == directions[d][2]
    IN  IF OffBoard(i + dh, j + dv, h, w)
        THEN {}
        ELSE WalkLoop(b, h, w, i + dh, j + dv, dh, dv, {})[3]

\* what one direction adds to move_dict[(i,j)]
DirectionFlips(b, h, w, i, j, d) ==
    LET dh == directions[d][1]
        dv == directions[d][2]
    IN  IF OffBoard(i + dh, j + dv, h, w)
        THEN {}
        ELSE LET r == WalkLoop(b, h, w, i + dh, j + dv, dh, dv, {})
             IN  IF b[r[1]][r[2]] = 1 THEN r[3] ELSE {}

\* the keys of move_dict, in insertion order
Keys(h, w) == [k \in 1..(h * w) |-> <<(k - 1) \div w, (k - 1) % w>>]

KeySet(h, w) == range(h) \X range(w)

\* update_move_dict walking from occupied squares too
update_move_dict_NoEmptyTest(b, h, w) ==
    [c \in KeySet(h, w) |->
        UNION {DirectionFlips(b, h, w, c[1], c[2], d) :
                   d \in DOMAIN directions}]

\* the new move_dict
update_move_dict(b, h, w) ==
    [c \in KeySet(h, w) |->
        IF b[c[1]][c[2]] = 0
        THEN UNION {DirectionFlips(b, h, w, c[1], c[2], d) :
                        d \in DOMAIN directions}
        ELSE {}]

\* the new possible_moves
PossibleMoves(md, h, w) ==
    LET nonempty(c) == Cardinality(md[c]) # 0
    IN  SelectSeq(Keys(h, w), nonempty)

(***************************************************************************)
(* The result of the last call.                                            *)
(***************************************************************************)
NoCall == [op |-> "none", a |-> 0, b |-> 0, err |-> "none",
           over |-> FALSE, winner |-> 0]

Result(op, a, b, err, over, winner) ==
    [op |-> op, a |-> a, b |-> b, err |-> err, over |-> over,
     winner |-> winner]

(***************************************************************************)
(* Before the constructor has run there is no object.                      *)
(***************************************************************************)
Init ==
    /\ constructed = FALSE
    /\ height = 0
    /\ width = 0
    /\ board = <<>>
    /\ curr_player = 0
    /\ move_dict = <<>>
    /\ possible_moves = <<>>
    /\ last = NoCall
    /\ run = <<>>

(***************************************************************************)
(* __init__(height, width)                                                 *)
(***************************************************************************)
EmptyBoard(h, w) == [i \in range(h) |-> [j \in range(w) |-> 0]]

\* InitialPieces with the two colours exchanged
InitialPieces_Swapped(h, w) ==
    << <<PyDiv2(h) - 1, PyDiv2(w) - 1, -1>>,
       <<PyDiv2(h),     PyDiv2(w) - 1, 1>>,
       <<PyDiv2(h) - 1, PyDiv2(w),     1>>,
       <<PyDiv2(h),     PyDiv2(w),     -1>> >>

\* the four assignments that place the initial pieces: <<row, column, value>>
InitialPieces(h, w) ==
    << <<PyDiv2(h) - 1, PyDiv2(w) - 1, 1>>,
       <<PyDiv2(h),     PyDiv2(w) - 1, -1>>,
       <<PyDiv2(h) - 1, PyDiv2(w),     -1>>,
       <<PyDiv2(h),     PyDiv2(w),     1>> >>

\* self.board[r][c] = v raises IndexError unless both indices are accepted
PlaceOK(h, w, p) == IndexOK(p[1], RangeLen(h)) /\ IndexOK(p[2], RangeLen(w))

Place(b, h, w, p) ==
    LET r == NormIndex(p[1], RangeLen(h))
        c == NormIndex(p[2], RangeLen(w))
    IN  [b EXCEPT ![r][c] = p[3]]

InitialBoard(h, w) ==
    LET ps == InitialPieces(h, w)
    IN  Place(Place(Place(Place(EmptyBoard(h, w), h, w, ps[1]),
                          h, w, ps[2]), h, w, ps[3]), h, w, ps[4])

\* InitError testing the parity of the height only
InitError_HeightOnly(h, w) ==
    IF PyMod2(h) # 0 THEN "ValueError"
    ELSE IF \E k \in 1..4 : ~PlaceOK(h, w, InitialPieces(h, w)[k])
         THEN "IndexError"
         ELSE "none"

\* the exception the constructor raises, "none" if it returns
InitError(h, w) ==
    IF PyMod2(h) # 0 \/ PyMod2(w) # 0 THEN "ValueError"
    ELSE IF \E k \in 1..4 : ~PlaceOK(h, w, InitialPieces(h, w)[k])
         THEN "IndexError"
         ELSE "none"

Construct(h, w) ==
    /\ ~constructed
    /\ last.op = "none"
    /\ LET err == InitError(h, w)
       IN  IF err # "none"
           THEN /\ last' = Result("init", h, w, err, FALSE, 0)
                /\ UNCHANGED <<constructed, height, width, board,
                               curr_player, move_dict, possible_moves>>
           ELSE LET nb == InitialBoard(h, w)
                    md == update_move_dict(nb, h, w)
                IN  /\ constructed' = TRUE
                    /\ height' = h
                    /\ width' = w
                    /\ board' = nb
                    /\ curr_player' = 1
                    /\ move_dict' = md
                    /\ possible_moves' = PossibleMoves(md, h, w)
                    /\ last' = Result("init", h, w, "none", FALSE, 0)

(***************************************************************************)
(* make_move(i, j) with integer coordinates                                *)
(***************************************************************************)
\* number of occupied squares
Pieces(b, h, w) == Cardinality({c \in KeySet(h, w) : b[c[1]][c[2]] # 0})

\* SetMine without the loop over the captured squares
SetMine_TargetOnly(b, i, j, flips) ==
    [x \in DOMAIN b |-> [y \in DOMAIN b[x] |->
        IF x = i /\ y = j THEN 1 ELSE b[x][y]]]

\* board[i][j] = 1, then board[x][y] = 1 for every (x,y) of the set
SetMine(b, i, j, flips) ==
    [x \in DOMAIN b |-> [y \in DOMAIN b[x] |->
        IF (x = i /\ y = j) \/ <<x, y>> \in flips THEN 1 ELSE b[x][y]]]

\* MoveError raising ValueError for a coordinate off the board
MoveError_WrongKind(i, j) ==
    IF i < 0 \/ i > height - 1 \/ j < 0 \/ j > width - 1 THEN "ValueError"
    ELSE IF Cardinality(move_dict[<<i, j>>]) = 0 THEN "ValueError"
    ELSE "none"

\* the exception make_move(i, j) raises, "none" if it returns
MoveError(i, j) ==
    IF i < 0 \/ i > height - 1 \/ j < 0 \/ j > width - 1 THEN "IndexError"
    ELSE IF Cardinality(move_dict[<<i, j>>]) = 0 THEN "ValueError"
    ELSE "none"

make_move(i, j) ==
    /\ constructed
    /\ LET err == MoveError(i, j)
       IN  IF err # "none"
           THEN /\ last' = Result("make_move", i, j, err, FALSE, 0)
                /\ UNCHANGED <<constructed, height, width, board,
                               curr_player, move_dict, possible_moves>>
           ELSE LET nb == flip_board(SetMine(board, i, j,
                                             move_dict[<<i, j>>]))
                    md == update_move_dict(nb, height, width)
                IN  /\ board' = nb
                    /\ move_dict' = md
                    /\ possible_moves' = PossibleMoves(md, height, width)
                    /\ curr_player' = curr_player * (-1)
                    /\ last' = Result("make_move", i, j, "none", FALSE, 0)
                    /\ UNCHANGED <<constructed, height, width>>

\* make_move(i, j), a piece being placed only while fewer than MaxPieces
\* squares are occupied
MakeMove(i, j) ==
    /\ constructed
    /\ MoveError(i, j) = "none" => Pieces(board, height, width) < MaxPieces
    /\ make_move(i, j)

(***************************************************************************)
(* make_move(None, None): the pass                                         *)
(***************************************************************************)
\* the pass without the change of player
Pass_NoToggle ==
    /\ constructed
    /\ board' = flip_board(board)
    /\ curr_player' = curr_player
    /\ last' = Result("pass", 0, 0, "none", FALSE, 0)
    /\ UNCHANGED <<constructed, height, width, move_dict, possible_moves>>

\* the pass without flip_board
Pass_NoFlip ==
    /\ constructed
    /\ board' = board
    /\ curr_player' = curr_player * (-1)
    /\ last' = Result("pass", 0, 0, "none", FALSE, 0)
    /\ UNCHANGED <<constructed, height, width, move_dict, possible_moves>>

Pass ==
    /\ constructed
    /\ board' = flip_board(board)
    /\ curr_player' = curr_player * (-1)
    /\ last' = Result("pass", 0, 0, "none", FALSE, 0)
    /\ UNCHANGED <<constructed, height, width, move_dict, possible_moves>>

(***************************************************************************)
(* check_winner()                                                          *)
(***************************************************************************)
RECURSIVE SumSeq(_, _)
SumSeq(f, n) == IF n < 0 THEN 0 ELSE f[n] + SumSeq(f, n - 1)

\* BoardSum adding up the first row only
BoardSum_FirstRow(b, h, w) == SumSeq(b[0], w - 1)

\* sum([sum(x) for x in board])
BoardSum(b, h, w) == SumSeq([i \in range(h) |-> SumSeq(b[i], w - 1)], h - 1)

\* check_winner without the second flip_board
check_winner_NoRevert ==
    IF Len(possible_moves) = 0
    THEN LET b1  == flip_board(board)
             md1 == update_move_dict(b1, height, width)
             pm1 == PossibleMoves(md1, height, width)
             opp_out_of_moves == (Len(pm1) = 0)
             b2  == b1
             md2 == update_move_dict(b2, height, width)
             pm2 == PossibleMoves(md2, height, width)
             s   == BoardSum(b2, height, width)
         IN  IF opp_out_of_moves
             THEN IF s > 0 THEN <<b2, md2, pm2, TRUE, curr_player>>
                  ELSE IF s < 0 THEN <<b2, md2, pm2, TRUE, -curr_player>>
                  ELSE <<b2, md2, pm2, TRUE, 0>>
             ELSE <<b2, md2, pm2, FALSE, 0>>
    ELSE <<board, move_dict, possible_moves, FALSE, 0>>

\* check_winner reading the sign of the sum as an absolute player
check_winner_AbsoluteSign ==
    IF Len(possible_moves) = 0
    THEN LET b1  == flip_board(board)
             md1 == update_move_dict(b1, height, width)
             pm1 == PossibleMoves(md1, height, width)
             opp_out_of_moves == (Len(pm1) = 0)
             b2  == flip_board(b1)
             md2 == update_move_dict(b2, height, width)
             pm2 == PossibleMoves(md2, height, width)
             s   == BoardSum(b2, height, width)
         IN  IF opp_out_of_moves
             THEN IF s > 0 THEN <<b2, md2, pm2, TRUE, 1>>
                  ELSE IF s < 0 THEN <<b2, md2, pm2, TRUE, -1>>
                  ELSE <<b2, md2, pm2, TRUE, 0>>
             ELSE <<b2, md2, pm2, FALSE, 0>>
    ELSE <<board, move_dict, possible_moves, FALSE, 0>>

\* check_winner that never sets opp_out_of_moves
check_winner_NeverOver ==
    IF Len(possible_moves) = 0
    THEN LET b1  == flip_board(board)
             md1 == update_move_dict(b1, height, width)
             pm1 == PossibleMoves(md1, height, width)
             opp_out_of_moves == FALSE
             b2  == flip_board(b1)
             md2 == update_move_dict(b2, height, width)
             pm2 == PossibleMoves(md2, height, width)
             s   == BoardSum(b2, height, width)
         IN  IF opp_out_of_moves
             THEN IF s > 0 THEN <<b2, md2, pm2, TRUE, curr_player>>
                  ELSE IF s < 0 THEN <<b2, md2, pm2, TRUE, -curr_player>>
                  ELSE <<b2, md2, pm2, TRUE, 0>>
             ELSE <<b2, md2, pm2, FALSE, 0>>
    ELSE <<board, move_dict, possible_moves, FALSE, 0>>

\* the state and the return value of check_winner:
\* <<board, move_dict, possible_moves, is_over, winner>>
check_winner ==
    IF Len(possible_moves) = 0
    THEN LET b1  == flip_board(board)
             md1 == update_move_dict(b1, height, width)
             pm1 == PossibleMoves(md1, height, width)
             opp_out_of_moves == (Len(pm1) = 0)
             b2  == flip_board(b1)
             md2 == update_move_dict(b2, height, width)
             pm2 == PossibleMoves(md2, height, width)
             s   == BoardSum(b2, height, width)
         IN  IF opp_out_of_moves
             THEN IF s > 0 THEN <<b2, md2, pm2, TRUE, curr_player>>
                  ELSE IF s < 0 THEN <<b2, md2, pm2, TRUE, -curr_player>>
                  ELSE <<b2, md2, pm2, TRUE, 0>>
             ELSE <<b2, md2, pm2, FALSE, 0>>
    ELSE <<board, move_dict, possible_moves, FALSE, 0>>

CheckWinner ==
    /\ constructed
    /\ LET r == check_winner
       IN  /\ board' = r[1]
           /\ move_dict' = r[2]
           /\ possible_moves' = r[3]
           /\ last' = Result("check_winner", 0, 0, "none", r[4], r[5])
    /\ UNCHANGED <<constructed, height, width, curr_player>>

(***************************************************************************)
(* The program: construct a board, then any sequence of calls.             *)
(***************************************************************************)
\* the calls are logged: run holds the grid and the player as they were before
\* each of the (at most two) latest passes made in unbroken succession; a
\* check_winner that follows them keeps the log, any other call clears it
Snapshot == [board |-> board, curr_player |-> curr_player]

LastTwo(seq) == IF Len(seq) > 2 THEN Tail(seq) ELSE seq

TrackRun ==
    run' = IF last'.op = "pass"
           THEN IF last.op = "pass"
                THEN LastTwo(Append(run, Snapshot))
                ELSE <<Snapshot>>
           ELSE IF last'.op = "check_winner" /\ last.op = "pass"
                THEN run
                ELSE <<>>

Next ==
    \/ \E h \in Dims, w \in Dims : Construct(h, w) /\ TrackRun
    \/ \E i \in (-1)..height, j \in (-1)..width : MakeMove(i, j) /\ TrackRun
    \/ Pass /\ TrackRun
    \/ CheckWinner /\ TrackRun

Spec == Init /\ [][Next]_vars

(***************************************************************************)
(* The game loop of play_game: call check_winner and stop if it reports    *)
(* the game over; otherwise play a square of possible_moves if there is    *)
(* one, else pass.                                                         *)
(***************************************************************************)
DriverConstruct == \E h \in Dims, w \in Dims : Construct(h, w)

DriverCheck ==
    /\ last.op \in {"init", "make_move", "pass"}
    /\ CheckWinner

DriverMove ==
    /\ last.op = "check_winner"
    /\ ~last.over
    /\ Len(possible_moves) # 0
    /\ \E k \in DOMAIN possible_moves :
          make_move(possible_moves[k][1], possible_moves[k][2])

DriverPass ==
    /\ last.op = "check_winner"
    /\ ~last.over
    /\ Len(possible_moves) = 0
    /\ Pass

NextDriver ==
    \/ DriverConstruct /\ TrackRun
    \/ DriverCheck /\ TrackRun
    \/ DriverMove /\ TrackRun
    \/ DriverPass /\ TrackRun

\* the loop is sequential code: it always takes its next step
SpecDriver == Init /\ [][NextDriver]_vars /\ WF_vars(NextDriver)

(***************************************************************************)
(* flip_board and update_move_dict as functions of the grid: each is       *)
(* applied to every grid of a bounded number of squares.                   *)
(***************************************************************************)
GridShapes(n) == {sh \in (1..n) \X (1..n) : sh[1] * sh[2] <= n}

\* an object holding an arbitrary grid, move_dict as __init__ creates it
InitGrid(n) ==
    /\ constructed = TRUE
    /\ \E sh \in GridShapes(n) :
          /\ height = sh[1]
          /\ width = sh[2]
          /\ board \in [range(sh[1]) -> [range(sh[2]) -> {-1, 0, 1}]]
          /\ move_dict = [c \in KeySet(sh[1], sh[2]) |-> {}]
    /\ curr_player = 1
    /\ possible_moves = <<>>
    /\ last = NoCall
    /\ run = <<>>

\* flip_board(), the grid before the call being logged
FlipBoard ==
    /\ Len(run) < 2
    /\ board' = flip_board(board)
    /\ run' = Append(run, Snapshot)
    /\ last' = Result("flip_board", 0, 0, "none", FALSE, 0)
    /\ UNCHANGED <<constructed, height, width, curr_player, move_dict,
                   possible_moves>>

InitFlip == InitGrid(MaxFlipCells)

NextFlip == FlipBoard

SpecFlip == InitFlip /\ [][NextFlip]_vars

\* update_move_dict()
UpdateMoveDict ==
    /\ last.op = "none"
    /\ move_dict' = update_move_dict(board, height, width)
    /\ possible_moves' = PossibleMoves(move_dict', height, width)
    /\ last' = Result("update_move_dict", 0, 0, "none", FALSE, 0)
    /\ UNCHANGED <<constructed, height, width, board, curr_player, run>>

InitMoves == InitGrid(MaxCells)

NextMoves == UpdateMoveDict

SpecMoves == InitMoves /\ [][NextMoves]_vars

(***************************************************************************)
(* Vocabulary of the properties.                                           *)
(***************************************************************************)
InBounds(i, j) == i \in range(height) /\ j \in range(width)

\* the squares where the player to whom grid b is oriented can play
LegalOn(b) ==
    {c \in KeySet(height, width) : update_move_dict(b, height, width)[c] # {}}

ToSet(seq) == {seq[k] : k \in DOMAIN seq}

Mine(b) == {c \in KeySet(height, width) : b[c[1]][c[2]] = 1}
Theirs(b) == {c \in KeySet(height, width) : b[c[1]][c[2]] = -1}

\* squares owned by the first player (1) and by the second player (-1)
OwnedBy(p) ==
    {c \in KeySet(height, width) : board[c[1]][c[2]] * curr_player = p}

\* C1: in every reachable state the legal-move cache (move_dict and
\* possible_moves) equals the capture mapping computed from the current grid
\* for the current player, after a pass too.
C1_CacheNeverStale ==
    constructed =>
        /\ move_dict = update_move_dict(board, height, width)
        /\ possible_moves = PossibleMoves(move_dict, height, width)

\* C2: check_winner returns is_over = True iff neither the current player nor
\* the opponent has a legal move on the actual current grid; when the current
\* player has none but the opponent has one it returns (False, 0).
C2_OverIffNoMoves ==
    (constructed /\ last.op = "check_winner") =>
        LET cur == LegalOn(board)
            opp == LegalOn(flip_board(board))
        IN  /\ last.over <=> (cur = {} /\ opp = {})
            /\ (cur = {} /\ opp # {}) => (~last.over /\ last.winner = 0)

\* C3: make_move(i, j) at an in-bounds coordinate succeeds iff the square is
\* empty and playing there captures at least one piece on the current grid;
\* at any other in-bounds coordinate it raises ValueError.
C3_MoveLegalOnGrid ==
    [][(constructed /\ last'.op = "make_move" /\ InBounds(last'.a, last'.b))
        => LET legal == /\ board[last'.a][last'.b] = 0
                        /\ <<last'.a, last'.b>> \in LegalOn(board)
           IN  /\ (last'.err = "none") <=> legal
               /\ (~legal) => last'.err = "ValueError"]_vars

\* C4: after a successful make_move(i, j) with capture set S = move_dict[(i,j)]
\* the square (i, j) and every square of S are -1 in the new orientation,
\* every other square holds the negation of its old value, and curr_player
\* has toggled.
C4_MoveEffect ==
    [][(constructed /\ last'.op = "make_move" /\ last'.err = "none")
        => LET S == move_dict[<<last'.a, last'.b>>]
           IN  /\ \A c \in KeySet(height, width) :
                     board'[c[1]][c[2]] =
                        IF c = <<last'.a, last'.b>> \/ c \in S
                        THEN -1
                        ELSE -board[c[1]][c[2]]
               /\ curr_player' = -curr_player
               /\ curr_player' # curr_player]_vars

C4_Witness ==
    /\ constructed
    /\ last.op = "make_move"
    /\ last.err = "none"
    /\ board[last.a][last.b] = -1
    /\ Cardinality(Theirs(board)) >= 3

\* C5: a failing make_move leaves grid, curr_player and the cache as they
\* were; off the board it raises IndexError, on the board with an empty
\* capture set in the cache it raises ValueError.
C5_FailedMoveChangesNothing ==
    [][(constructed /\ last'.op = "make_move")
        => /\ ~InBounds(last'.a, last'.b) => last'.err = "IndexError"
           /\ (InBounds(last'.a, last'.b)
                 /\ move_dict[<<last'.a, last'.b>>] = {})
               => last'.err = "ValueError"
           /\ last'.err # "none" =>
                 /\ ~InBounds(last'.a, last'.b)
                       \/ move_dict[<<last'.a, last'.b>>] = {}
                 /\ UNCHANGED <<board, curr_player, move_dict,
                                possible_moves, height, width>>]_vars

C5_Witness ==
    /\ constructed
    /\ last.op = "make_move"
    /\ last.err = "ValueError"
    /\ Cardinality(Mine(board)) + Cardinality(Theirs(board)) > 4

\* the board the constructor has just returned, of the given size
Fresh(h, w) ==
    constructed /\ last.op = "init" /\ height = h /\ width = w

\* C6 as stated: on a fresh 4x4 board the legal moves of the first player are
\* exactly (0,1), (1,0), (2,3), (3,2), and move (0,1) succeeds, turns (1,1)
\* into -1 and advances curr_player.
C6_Original ==
    /\ [](Fresh(4, 4) =>
            /\ board[1][1] = 1 /\ board[2][1] = -1
            /\ board[1][2] = -1 /\ board[2][2] = 1
            /\ ToSet(possible_moves) = {<<0, 1>>, <<1, 0>>, <<2, 3>>, <<3, 2>>})
    /\ [][(Fresh(4, 4) /\ last'.op = "make_move"
             /\ last'.a = 0 /\ last'.b = 1)
          => /\ last'.err = "none"
             /\ board'[1][1] = -1
             /\ curr_player' = -curr_player]_vars

\* C6 amended: on a fresh 4x4 board the legal moves of the first player are
\* exactly (0,2), (1,3), (2,0), (3,1); move (0,1) raises ValueError; move
\* (0,2) succeeds, captures (1,2), leaves (0,2), (1,2) and (1,1) as -1 for
\* the new current player, and advances curr_player.
C6_FreshFourByFour ==
    /\ [](Fresh(4, 4) =>
            /\ board[1][1] = 1 /\ board[2][1] = -1
            /\ board[1][2] = -1 /\ board[2][2] = 1
            /\ ToSet(possible_moves) = {<<0, 2>>, <<1, 3>>, <<2, 0>>, <<3, 1>>}
            /\ Len(possible_moves) = 4
            /\ move_dict[<<0, 2>>] = {<<1, 2>>})
    /\ [][(Fresh(4, 4) /\ last'.op = "make_move"
             /\ last'.a = 0 /\ last'.b = 1)
          => last'.err = "ValueError"]_vars
    /\ [][(Fresh(4, 4) /\ last'.op = "make_move"
             /\ last'.a = 0 /\ last'.b = 2)
          => /\ last'.err = "none"
             /\ board'[0][2] = -1
             /\ board'[1][2] = -1
             /\ board'[1][1] = -1
             /\ curr_player = 1
             /\ curr_player' = -1]_vars

C6_Witness ==
    /\ constructed
    /\ height = 4 /\ width = 4
    /\ last = Result("make_move", 0, 2, "none", FALSE, 0)
    /\ curr_player = -1
    /\ Theirs(board) = {<<0, 2>>, <<1, 2>>, <<1, 1>>, <<2, 2>>}
    /\ Mine(board) = {<<2, 1>>}

\* C7: for positive height and width the constructor raises ValueError if
\* either is odd; if both are even it returns a board with curr_player = 1,
\* 1 at (h/2-1, w/2-1) and (h/2, w/2), -1 at (h/2, w/2-1) and (h/2-1, w/2),
\* and every other square empty.
C7_Construction ==
    (last.op = "init" /\ last.a > 0 /\ last.b > 0) =>
        LET h == last.a
            w == last.b
        IN  /\ (h % 2 = 1 \/ w % 2 = 1) =>
                   (last.err = "ValueError" /\ ~constructed)
            /\ (h % 2 = 0 /\ w % 2 = 0) =>
                   /\ last.err = "none"
                   /\ constructed
                   /\ height = h /\ width = w
                   /\ curr_player = 1
                   /\ DOMAIN board = 0..(h - 1)
                   /\ \A i \in 0..(h - 1) : DOMAIN board[i] = 0..(w - 1)
                   /\ Mine(board) = {<<h \div 2 - 1, w \div 2 - 1>>,
                                     <<h \div 2, w \div 2>>}
                   /\ Theirs(board) = {<<h \div 2, w \div 2 - 1>>,
                                       <<h \div 2 - 1, w \div 2>>}
                   /\ Cardinality(Mine(board) \cup Theirs(board)) = 4

C7_Witness ==
    /\ Fresh(2, 4)
    /\ board[0][1] = 1 /\ board[1][2] = 1
    /\ board[1][1] = -1 /\ board[0][2] = -1

\* C8: construction with a non-positive height or width raises ValueError,
\* the error of odd dimensions, and no board comes to exist.
C8_NonPositiveRejectedAsInvalid ==
    (last.op = "init" /\ (last.a <= 0 \/ last.b <= 0)) =>
        (last.err = "ValueError" /\ ~constructed)

\* C9: check_winner leaves the grid and curr_player as they were, on every
\* return path.
C9_CheckWinnerKeepsGrid ==
    [][(constructed /\ last'.op = "check_winner")
        => /\ board' = board
           /\ curr_player' = curr_player
           /\ height' = height /\ width' = width]_vars

\* a check_winner that probed the opponent's moves on a board in play
C9_Witness ==
    /\ constructed
    /\ last.op = "check_winner"
    /\ last.over
    /\ Cardinality(Mine(board)) + Cardinality(Theirs(board)) > 4
    /\ Cardinality(Mine(board)) # Cardinality(Theirs(board))

\* C10: when check_winner reports the game over, a positive sum of the grid
\* returns curr_player, a negative sum -curr_player, zero 0; so the winner is
\* the absolute player who owns strictly more squares, whoever is to move.
C10_WinnerBySum ==
    (constructed /\ last.op = "check_winner" /\ last.over) =>
        LET s == Cardinality(Mine(board)) - Cardinality(Theirs(board))
            first == Cardinality(OwnedBy(1))
            second == Cardinality(OwnedBy(-1))
        IN  /\ s > 0 => last.winner = curr_player
            /\ s < 0 => last.winner = -curr_player
            /\ s = 0 => last.winner = 0
            /\ first > second => last.winner = 1
            /\ second > first => last.winner = -1
            /\ first = second => last.winner = 0

\* the game is reported won by the player who is not to move, on the second
\* player's turn
C10_Witness ==
    /\ constructed
    /\ last.op = "check_winner"
    /\ last.over
    /\ curr_player = -1
    /\ last.winner = 1

\* neither the player to whom grid b is oriented nor the opponent can play
Dead(b) == LegalOn(b) = {} /\ LegalOn(flip_board(b)) = {}

\* the player who owns strictly more squares, 0 if none does
CountWinner ==
    IF Cardinality(OwnedBy(1)) > Cardinality(OwnedBy(-1)) THEN 1
    ELSE IF Cardinality(OwnedBy(1)) < Cardinality(OwnedBy(-1)) THEN -1
    ELSE 0

\* C11: from a state in which neither player has a legal move, after two
\* passes in succession the grid and curr_player are what they were before
\* them, and a check_winner that follows returns (True, w), w the player who
\* owns more squares (0 if equal).
C11_TwoPassesThenOver ==
    (constructed /\ Len(run) = 2 /\ Dead(run[1].board)) =>
        /\ last.op \in {"pass", "check_winner"}
        /\ board = run[1].board
        /\ curr_player = run[1].curr_player
        /\ run[2].board = flip_board(run[1].board)
        /\ run[2].curr_player = -run[1].curr_player
        /\ last.op = "check_winner" =>
              (last.over /\ last.winner = CountWinner)

C11_Witness ==
    /\ constructed
    /\ Len(run) = 2
    /\ Dead(run[1].board)
    /\ last.op = "check_winner"
    /\ last.over
    /\ last.winner = -1
    /\ Cardinality(Mine(board)) + Cardinality(Theirs(board)) > 4

Occupied(b) == Mine(b) \cup Theirs(b)

Centre ==
    {<<height \div 2 - 1, width \div 2 - 1>>, <<height \div 2, width \div 2>>,
     <<height \div 2, width \div 2 - 1>>, <<height \div 2 - 1, width \div 2>>}

\* C12: an occupied square never becomes empty and at most height*width
\* squares are occupied; a successful coordinate move puts its piece on a
\* square that was empty and raises the number of occupied squares by exactly
\* 1; a pass, a failed move and check_winner leave that number unchanged; the
\* four centre squares stay occupied.
C12_PiecesOnlyGrow ==
    /\ [](constructed =>
            /\ Cardinality(Occupied(board)) <= height * width
            /\ Centre \subseteq Occupied(board))
    /\ [][constructed =>
            LET moved == last'.op = "make_move" /\ last'.err = "none"
            IN  \/ (~moved) /\ board' = board
                \/ /\ Occupied(board) \subseteq Occupied(board')
                   /\ moved =>
                         /\ board[last'.a][last'.b] = 0
                         /\ Occupied(board') =
                               Occupied(board) \cup {<<last'.a, last'.b>>}
                         /\ Cardinality(Occupied(board')) =
                               Cardinality(Occupied(board)) + 1
                   /\ (~moved) => Occupied(board') = Occupied(board)]_vars

C12_Witness ==
    /\ constructed
    /\ last.op = "make_move"
    /\ last.err = "none"
    /\ Cardinality(Occupied(board)) = 7
    /\ Centre \subseteq Occupied(board)

\* the absolute owner of square c: 1 first player, -1 second player, 0 nobody
Owner(b, p, c) == b[c[1]][c[2]] * p

\* C13: a pass always succeeds, whether or not the current player has legal
\* moves; it negates every square and toggles curr_player, and the absolute
\* owner of every square is the same before and after it.
C13_PassReorientsOnly ==
    /\ [](constructed => ENABLED Pass)
    /\ [][(constructed /\ last'.op = "pass")
            => /\ last'.err = "none"
               /\ \A c \in KeySet(height, width) :
                     /\ board'[c[1]][c[2]] = -board[c[1]][c[2]]
                     /\ Owner(board', curr_player', c)
                           = Owner(board, curr_player, c)
               /\ curr_player' = -curr_player
               /\ curr_player' \in {1, -1}
               /\ height' = height /\ width' = width]_vars

\* a pass made by a player who had legal moves, on a board in play
C13_Witness ==
    /\ constructed
    /\ last.op = "pass"
    /\ LegalOn(flip_board(board)) # {}
    /\ Cardinality(Occupied(board)) > 4
    /\ curr_player = 1

\* C14: curr_player changes only inside a successful coordinate move or a
\* pass and toggles exactly once per such call; each toggle comes with one
\* negation of the whole grid, and no call negates the grid without toggling
\* curr_player or toggles it without negating the grid.
C14_ToggleWithFlip ==
    [][constructed =>
        LET moved == last'.op = "make_move" /\ last'.err = "none"
            passed == last'.op = "pass"
            placed == IF moved
                      THEN {<<last'.a, last'.b>>}
                              \cup move_dict[<<last'.a, last'.b>>]
                      ELSE {}
        IN  \/ /\ ~(moved \/ passed)
               /\ curr_player' = curr_player
               /\ curr_player' \in {1, -1}
               /\ board' = board
            \/ /\ moved \/ passed
               /\ curr_player' = -curr_player
               /\ curr_player' \in {1, -1}
               /\ \A c \in KeySet(height, width) :
                     board'[c[1]][c[2]] =
                        -(IF c \in placed THEN 1 ELSE board[c[1]][c[2]])
               /\ \A c \in KeySet(height, width) \ placed :
                     Owner(board', curr_player', c)
                        = Owner(board, curr_player, c)]_vars

\* the second player has moved after a pass of the first: two toggles, two
\* negations
C14_Witness ==
    /\ constructed
    /\ last.op = "make_move"
    /\ last.err = "none"
    /\ curr_player = 1
    /\ Cardinality(Occupied(board)) = 5
    /\ board[last.a][last.b] = -1

\* C15: flip_board applied twice in succession restores the grid exactly,
\* square for square (and applied once it negates every square).
C15_FlipInvolution ==
    (last.op = "flip_board" /\ Len(run) = 2) =>
        /\ board = run[1].board
        /\ \A c \in KeySet(height, width) :
              /\ board[c[1]][c[2]] = run[1].board[c[1]][c[2]]
              /\ run[2].board[c[1]][c[2]] = -run[1].board[c[1]][c[2]]

C15_Witness ==
    /\ last.op = "flip_board"
    /\ Len(run) = 2
    /\ height = 2 /\ width = 3
    /\ Mine(board) # {} /\ Theirs(board) # {}
    /\ Occupied(board) # KeySet(height, width)
    /\ run[2].board # board

\* the reference capture set: the square at n steps from c in direction d
At(c, d, n) == <<c[1] + n * d[1], c[2] + n * d[2]>>

\* the squares at 1..n steps
Ray(c, d, n) == {At(c, d, m) : m \in 1..n}

Compass == {<<-1, -1>>, <<-1, 0>>, <<-1, 1>>, <<0, -1>>,
            <<0, 1>>, <<1, -1>>, <<1, 0>>, <<1, 1>>}

OnGrid(s) == s[1] >= 0 /\ s[1] < height /\ s[2] >= 0 /\ s[2] < width

EnemyAt(b, s) == OnGrid(s) /\ b[s[1]][s[2]] = -1

\* the length of the maximal run of enemy pieces that starts next to c: the
\* first n squares are enemy pieces on the grid and the next one is not
RunLength(b, c, d) ==
    LET longest == IF height > width THEN height ELSE width
    IN  CHOOSE n \in 0..longest :
           /\ ~EnemyAt(b, At(c, d, n + 1))
           /\ \A m \in 1..n : EnemyAt(b, At(c, d, m))

RefCapture(b, c) ==
    IF b[c[1]][c[2]] # 0 THEN {}
    ELSE UNION {LET n == RunLength(b, c, d)
                    e == At(c, d, n + 1)
                IN  IF OnGrid(e) /\ b[e[1]][e[2]] = 1
                    THEN Ray(c, d, n)
                    ELSE {} : d \in Compass}

\* C16: for every grid over {1, -1, 0}, update_move_dict sets move_dict[c] to
\* the reference capture set of c (empty for an occupied square; for an empty
\* square the union over the 8 directions of the maximal run of enemy pieces
\* next to c, kept only when an own piece on the grid follows the run), and
\* possible_moves lists exactly the squares with a non-empty capture set.
C16_CaptureSets ==
    (last.op = "update_move_dict") =>
        LET ref == [c \in KeySet(height, width) |-> RefCapture(board, c)]
        IN  /\ DOMAIN move_dict = KeySet(height, width)
            /\ \A c \in KeySet(height, width) : move_dict[c] = ref[c]
            /\ ToSet(possible_moves) =
                  {c \in KeySet(height, width) : ref[c] # {}}
            /\ Len(possible_moves) = Cardinality(ToSet(possible_moves))

\* a square that captures along a diagonal and along a row at once
C16_Witness ==
    /\ last.op = "update_move_dict"
    /\ height = 3 /\ width = 3
    /\ move_dict[<<0, 0>>] = {<<1, 1>>, <<0, 1>>}
    /\ board[1][0] = -1
    /\ Len(possible_moves) >= 2

\* C17: check_winner leaves move_dict and possible_moves with the contents
\* they had before the call.
C17_CheckWinnerKeepsCache ==
    [][(constructed /\ last'.op = "check_winner")
        => /\ move_dict' = move_dict
           /\ possible_moves' = possible_moves]_vars

\* C18: under the game loop every game on a constructed board ends:
\* check_winner eventually returns is_over = True; every coordinate move of
\* the loop succeeds and occupies one more square, so at most
\* height*width - 4 of them are made.
C18_GameTerminates ==
    /\ constructed ~> (last.op = "check_winner" /\ last.over)
    /\ [](constructed =>
            /\ Cardinality(Occupied(board)) >= 4
            /\ Cardinality(Occupied(board)) - 4 <= height * width - 4
            /\ last.err = "none")
    /\ [][constructed =>
            Cardinality(Occupied(board')) =
               Cardinality(Occupied(board))
                  + (IF last'.op = "make_move" THEN 1 ELSE 0)]_vars

\* a 4x4 game played to a full board: 12 coordinate moves
C18_Witness ==
    /\ constructed
    /\ height = 4 /\ width = 4
    /\ last.op = "check_winner"
    /\ last.over
    /\ Cardinality(Occupied(board)) = 16

=============================================================================
